---- MODULE Spec2Model ----
(***************************************************************************)
(* Exhaustiveness checking and discriminated-union dispatch, as written in *)
(* src/index.ts and explained in src/POST.md and src/POST2.md.             *)
(*                                                                         *)
(* Two machines share this module.                                         *)
(*   Spec       the run-time behaviour of the functions of the sources     *)
(*              (run, run2, run3, run4, run5, runAction, handleSound,      *)
(*              handlers, switchNotification, handle, and accept,          *)
(*              makeSound, canClimbTrees of src/unnamed/part_000): one     *)
(*              action per call, recording the effects and the visit       *)
(*              operations it performed and the way the call               *)
(*              ended, and one action for invoking a returned effect.      *)
(*   SpecCheck  the compile-time case analysis: a sequential walk over the *)
(*              cases of a switch that narrows the residual type, then     *)
(*              the terminal branch, the end of the function and the use   *)
(*              site, collecting the diagnostics the sources document;     *)
(*              the implements check of a visitor class, the check of a    *)
(*              handlers-map dispatch site and the check of a switch       *)
(*              nested in another; and a run of the checked                *)
(*              analysis on a value of one variant.                        *)
(***************************************************************************)
EXTENDS Integers, Sequences, FiniteSets, TLC

\* ------------------------------------------------------------------ bounds

\* Numbers passed to the arithmetic dispatcher range over 0..MaxNum.
MaxNum == 6

\* Closed variant sets are the non-empty subsets of 1..MaxVariants.
MaxVariants == 3

\* A returned deferred effect is invoked at most MaxInvocations times.
MaxInvocations == 3

VARIABLES
  fn,        \* run time: the dispatcher last called ("none" before any call)
  arg,       \* run time: its argument
  events,    \* run time: the send and visit operations the call performed
  outcome,   \* run time: how the call ended (a returned value or a throw)
  invoked,   \* run time: how many times the returned effect was invoked
  prog,      \* compile time: the case analysis under check
  pcT,       \* compile time: the checker's position
  idx,       \* compile time: index of the next case clause to visit
  residual,  \* compile time: the residual type, as a set of variants
  errors,    \* compile time: where diagnostics were reported
  input,     \* run of the checked analysis: the variant of the value given
  taken      \* run of the checked analysis: the branch that handled it

rtVars == <<fn, arg, events, outcome, invoked>>
tcVars == <<prog, pcT, idx, residual, errors, input, taken>>
vars == <<fn, arg, events, outcome, invoked, prog, pcT, idx, residual, errors,
          input, taken>>

\* ------------------------------------------------------------ run-time values

Undefined == [t |-> "undefined"]
Num(n) == [t |-> "number", n |-> n]

\* A string built by a template literal, kept as the sequence of its parts.
Str(parts) == [t |-> "string", parts |-> parts]

Returned(v) == [kind |-> "return", value |-> v]
Thrown(e) == [kind |-> "throw", error |-> e]

\* The result of running a function body: the effects performed and the outcome.
Result(es, o) == [events |-> es, outcome |-> o]

\* A property read; a property the object lacks reads as undefined.
Field(o, f) == IF f \in DOMAIN o THEN o[f] ELSE Undefined

Nums == 0..MaxNum

\* type Op = 'add' | 'multiply' | 'divide'
Op == {"add", "multiply", "divide"}

Recipients == {"igor@loskutoff.com", "other@example.com"}
Subjects == {"hello", "bye"}
Bodies == {"world", "moon"}
PhoneNumbers == {"+1", "+2"}
Messages == {"hi", "yo"}

\* type Notification = { type: 'email', ... } | { type: 'sms', ... }
Notification ==
  [type : {"email"}, recipient : Recipients, subject : Subjects, body : Bodies]
    \cup [type : {"sms"}, phoneNumber : PhoneNumbers, message : Messages]

NotificationTypes == {"email", "sms"}

\* Values forced onto a dispatcher by an unchecked cast: the discriminant is
\* outside the declared variant set.
CastNotification ==
  [type : {"push", "discord"}, message : Messages]

\* The declared external send operations, as the event a call leaves behind.
sendEmail(recipient, subject, body) ==
  [op |-> "sendEmail", args |-> <<recipient, subject, body>>]

sendSMS(phoneNumber, message) ==
  [op |-> "sendSMS", args |-> <<phoneNumber, message>>]

\* function absurd(x: never): never { throw new Error(`panic! not reachable: ${x}`) }
absurd(x) == Result(<<>>, Thrown(<<"panic! not reachable: ", x>>))

\* ------------------------------------------------------- run-time dispatchers

\* A `case 'add'` that computes the wrong operation.
run_swapped(op, a, b) ==
  CASE op = "add" -> Result(<<>>, Returned(Num(a * b)))
    [] op = "multiply" -> Result(<<>>, Returned(Num(a + b)))
    [] OTHER -> Result(<<>>, Returned(Undefined))

\* const run = (op: Op) => (a: number, b: number) => { switch (op) { ... } }
\* Only 'add' and 'multiply' have a case and there is no default: any other
\* op leaves the switch and the function ends without a return statement.
run(op, a, b) ==
  CASE op = "add" -> Result(<<>>, Returned(Num(a + b)))
    [] op = "multiply" -> Result(<<>>, Returned(Num(a * b)))
    [] OTHER -> Result(<<>>, Returned(Undefined))

\* The handlers map, one entry per discriminant.
handlers_email(notification) ==
  Result(<<sendEmail(Field(notification, "recipient"),
                     Field(notification, "subject"),
                     Field(notification, "body"))>>,
         Returned(Undefined))

handlers_sms(notification) ==
  Result(<<sendSMS(Field(notification, "phoneNumber"),
                   Field(notification, "message"))>>,
         Returned(Undefined))

\* A dispatch site that ignores the discriminant: handlers['sms'](notification).
handlersDispatch_fixedKey(notification) ==
  handlers_sms(notification)

\* handlers[notification.type](notification); a key the map lacks reads as
\* undefined, and calling undefined throws a TypeError.
handlersDispatch(notification) ==
  CASE notification.type = "email" -> handlers_email(notification)
    [] notification.type = "sms" -> handlers_sms(notification)
    [] OTHER -> Result(<<>>, Thrown(<<"TypeError: not a function">>))

\* A default branch that only holds the never-typed declaration and does not throw.
switchNotification_noThrow(notification) ==
  CASE notification.type = "email" ->
         Result(<<sendEmail(Field(notification, "recipient"),
                            Field(notification, "subject"),
                            Field(notification, "body"))>>,
                Returned(Undefined))
    [] notification.type = "sms" ->
         Result(<<sendSMS(Field(notification, "phoneNumber"),
                          Field(notification, "message"))>>,
                Returned(Undefined))
    [] OTHER -> Result(<<>>, Returned(Undefined))

\* const switchNotification = (notification: Notification) => { switch ... }
switchNotification(notification) ==
  CASE notification.type = "email" ->
         Result(<<sendEmail(Field(notification, "recipient"),
                            Field(notification, "subject"),
                            Field(notification, "body"))>>,
                Returned(Undefined))
    [] notification.type = "sms" ->
         Result(<<sendSMS(Field(notification, "phoneNumber"),
                          Field(notification, "message"))>>,
                Returned(Undefined))
    [] OTHER ->
         Result(<<>>,
                Thrown(<<"panic! Unknown notification type: ", notification.type>>))

\* The two-tag notification of POST2.md: email x {html, plain}, and sms.
NotificationFmt ==
  [type : {"email"}, format : {"html", "plain"},
   recipient : Recipients, subject : Subjects, body : Bodies]
    \cup [type : {"sms"}, phoneNumber : PhoneNumbers, message : Messages]

\* Cast values for the two-tag form: an unknown format, or an unknown type.
CastNotificationFmt ==
  [type : {"email"}, format : {"markdown"},
   recipient : Recipients, subject : Subjects, body : Bodies]
    \cup [type : {"push"}, message : Messages]

\* An inner switch whose 'html' clause lacks its break and falls into 'plain'.
handle_fallthrough(notification) ==
  CASE notification.type = "email" ->
         (CASE notification.format = "html" ->
                 Result(<<sendEmail(notification.recipient, notification.subject,
                                    notification.body),
                          sendEmail(notification.recipient, notification.subject,
                                    notification.body)>>,
                        Returned(Undefined))
            [] notification.format = "plain" ->
                 Result(<<sendEmail(notification.recipient, notification.subject,
                                    notification.body)>>,
                        Returned(Undefined))
            [] OTHER -> absurd(notification))
    [] notification.type = "sms" ->
         Result(<<sendSMS(notification.phoneNumber, notification.message)>>,
                Returned(Undefined))
    [] OTHER -> absurd(notification)

\* const handle = (notification: Notification) => { nested switch on type, format }
handle(notification) ==
  CASE notification.type = "email" ->
         (CASE notification.format = "html" ->
                 Result(<<sendEmail(notification.recipient, notification.subject,
                                    notification.body)>>,
                        Returned(Undefined))
            [] notification.format = "plain" ->
                 Result(<<sendEmail(notification.recipient, notification.subject,
                                    notification.body)>>,
                        Returned(Undefined))
            [] OTHER -> absurd(notification))
    [] notification.type = "sms" ->
         Result(<<sendSMS(notification.phoneNumber, notification.message)>>,
                Returned(Undefined))
    [] OTHER -> absurd(notification)

\* console.log(x), as the event a call leaves behind.
consoleLog(x) == [op |-> "console.log", args |-> <<x>>]

\* A zero-argument callable that performs one effect each time it is invoked.
Effect(e) == [t |-> "function", effect |-> e]

IsEffect(v) == v.t = "function"

\* const run2 = (op: Op) => (a: number, b: number): void => { switch (op) ... }
run2(op, a, b) ==
  CASE op = "add" -> Result(<<consoleLog(Num(a + b))>>, Returned(Undefined))
    [] op = "multiply" -> Result(<<consoleLog(Num(a * b))>>, Returned(Undefined))
    [] OTHER -> Result(<<>>, Returned(Undefined))

\* const LogAction = (a: string): LogAction => ({ action: 'log', value: a })
LogAction(a) == [t |-> "object", action |-> "log", value |-> a]

\* A run3 with the commented-out default made to throw.
run3_throwing(op, a, b) ==
  CASE op = "add" -> Result(<<>>, Returned(LogAction(<<a, " + ", b, " = ", a + b>>)))
    [] op = "multiply" ->
         Result(<<>>, Returned(LogAction(<<a, " * ", b, " = ", a * b>>)))
    [] OTHER -> Result(<<>>, Thrown(<<"panic!">>))

\* const run3 = (op: Op) => (a: number, b: number) => { switch (op) ... }
\* A template literal is kept as the sequence of its parts.
run3(op, a, b) ==
  CASE op = "add" -> Result(<<>>, Returned(LogAction(<<a, " + ", b, " = ", a + b>>)))
    [] op = "multiply" ->
         Result(<<>>, Returned(LogAction(<<a, " * ", b, " = ", a * b>>)))
    [] OTHER -> Result(<<>>, Returned(Undefined))

\* A run4 that logs while matching and returns the callable as well.
run4_eager(op, a, b) ==
  CASE op = "add" ->
         Result(<<consoleLog(Num(a + b))>>, Returned(Effect(consoleLog(Num(a + b)))))
    [] op = "multiply" ->
         Result(<<consoleLog(Num(a + b))>>, Returned(Effect(consoleLog(Num(a + b)))))
    [] OTHER -> Result(<<>>, Returned(Undefined))

\* const run4 = (op: Op) => (a: number, b: number) => { switch (op) ... }
\* Both clauses return () => console.log(a + b), as the source has them.
run4(op, a, b) ==
  CASE op = "add" -> Result(<<>>, Returned(Effect(consoleLog(Num(a + b)))))
    [] op = "multiply" -> Result(<<>>, Returned(Effect(consoleLog(Num(a + b)))))
    [] OTHER -> Result(<<>>, Returned(Undefined))

\* The values runAction is declared to take, and values cast onto it.
LogActionValues == {"1 + 1 = 2", "hello"}
LogActions == {LogAction(v) : v \in LogActionValues}
CastActions == [t : {"object"}, action : {"write", "drop"}, value : LogActionValues]

\* const runAction = (action: LogAction) => { switch (action.action) ... }
\* The default branch holds only `const _: never = action.action`.
runAction(action) ==
  CASE action.action = "log" ->
         Result(<<consoleLog(action.value)>>, Returned(Undefined))
    [] OTHER -> Result(<<>>, Returned(Undefined))

\* class Animal { constructor(public name: string) {} }: the parameter
\* property stores the constructor argument.
AnimalConstructor(cls, name) == [cls |-> cls, name |-> name]

\* The field initializers of a class body, run once the super constructor
\* has returned: Dog declares name = 'Dog', Cat declares name = 'Cat'.
FieldInitializers(o) ==
  CASE o.cls = "Dog" -> [o EXCEPT !.name = "Dog"]
    [] o.cls = "Cat" -> [o EXCEPT !.name = "Cat"]
    [] OTHER -> o

\* new Animal(name), new Dog(name), new Cat(name)
New(cls, name) == FieldInitializers(AnimalConstructor(cls, name))

\* makeSound() of each class; the template literal is kept as its parts.
makeSound(o) ==
  CASE o.cls = "Dog" -> Str(<<o.name, " barks.">>)
    [] o.cls = "Cat" -> Str(<<o.name, " meows.">>)
    [] OTHER -> Str(<<o.name, " makes a sound.">>)

\* const handleSound = (animal: Animal): string => animal.makeSound()
handleSound(animal) == Result(<<>>, Returned(makeSound(animal)))

AnimalClasses == {"Animal", "Dog", "Cat"}
AnimalNames == {"Storm", "Viper"}

\* type OpPartial = 'add' | 'multiply' | 'divide' | (string & {}): the three
\* named operations and, standing for every other string, two more.
OpPartial == Op \cup {"subtract", ""}

RECURSIVE GCD(_, _)
GCD(a, b) == IF b = 0 THEN a ELSE GCD(b, a % b)

\* a / b on numbers: NaN for 0 / 0, Infinity for a / 0 with a > 0, and else
\* the quotient, kept exact as a fraction in lowest terms (den = 1 for a
\* whole number; the rounding of the binary representation is left out).
Divide(a, b) ==
  IF b = 0
    THEN [t |-> "number", num |-> IF a = 0 THEN 0 ELSE 1, den |-> 0]
    ELSE [t |-> "number", num |-> a \div GCD(a, b), den |-> b \div GCD(a, b)]

\* A run5 whose default clause is missing.
run5_noDefault(op, a, b) ==
  CASE op = "add" -> Result(<<>>, Returned(LogAction(<<a, " + ", b, " = ", a + b>>)))
    [] op = "multiply" ->
         Result(<<>>, Returned(LogAction(<<a, " * ", b, " = ", a * b>>)))
    [] op = "divide" ->
         Result(<<>>, Returned(LogAction(<<a, " / ", b, " = ", Divide(a, b)>>)))
    [] OTHER -> Result(<<>>, Returned(Undefined))

\* const run5 = (op: OpPartial) => (a: number, b: number) => { switch (op) ... }
run5(op, a, b) ==
  CASE op = "add" -> Result(<<>>, Returned(LogAction(<<a, " + ", b, " = ", a + b>>)))
    [] op = "multiply" ->
         Result(<<>>, Returned(LogAction(<<a, " * ", b, " = ", a * b>>)))
    [] op = "divide" ->
         Result(<<>>, Returned(LogAction(<<a, " / ", b, " = ", Divide(a, b)>>)))
    [] OTHER -> Result(<<>>, Returned(LogAction(<<"default">>)))

\* new Dog2(), new Cat2(): an instance carries its class and its identity.
\* "Other2" stands for an implementation of Animal2 that is neither.
Animal2Classes == {"Dog2", "Cat2"}
OtherAnimal2Classes == {"Other2"}
Animal2Ids == {"first", "second"}
NewAnimal2(cls, id) == [t |-> "object", cls |-> cls, id |-> id]

\* animal instanceof cls
instanceof(animal, cls) == animal.cls = cls

Bool(b) == [t |-> "boolean", b |-> b]

\* Dog2.woof() and Cat2.meow()
woof(dog) == Str(<<"woof">>)
meow(cat) == Str(<<"meow">>)

\* class MakeSoundVisitor, class CanClimbTreesVisitor
Visitors == {"MakeSoundVisitor", "CanClimbTreesVisitor"}

\* visitor.visitDog(dog) and visitor.visitCat(cat) of the two visitor classes
visitDog(visitor, dog) ==
  CASE visitor = "MakeSoundVisitor" -> woof(dog)
    [] visitor = "CanClimbTreesVisitor" -> Bool(FALSE)

visitCat(visitor, cat) ==
  CASE visitor = "MakeSoundVisitor" -> meow(cat)
    [] visitor = "CanClimbTreesVisitor" -> Bool(TRUE)

\* The record of one call of a visit operation on a visitor.
VisitCall(op, visitor, animal) == [op |-> op, visitor |-> visitor, args |-> <<animal>>]

\* An accept that hands a Dog2 to visitCat and a Cat2 to visitDog.
accept_crossed(animal, visitor) ==
  CASE animal.cls = "Dog2" ->
         Result(<<VisitCall("visitCat", visitor, animal)>>,
                Returned(visitCat(visitor, animal)))
    [] animal.cls = "Cat2" ->
         Result(<<VisitCall("visitDog", visitor, animal)>>,
                Returned(visitDog(visitor, animal)))

\* accept<R>(visitor: AnimalVisitor<R>): R of Dog2 and of Cat2
accept(animal, visitor) ==
  CASE animal.cls = "Dog2" ->
         Result(<<VisitCall("visitDog", visitor, animal)>>,
                Returned(visitDog(visitor, animal)))
    [] animal.cls = "Cat2" ->
         Result(<<VisitCall("visitCat", visitor, animal)>>,
                Returned(visitCat(visitor, animal)))

\* A makeSound whose two branches answer with the other animal's sound.
makeSound2_swapped(animal) ==
  IF instanceof(animal, "Dog2") THEN Result(<<>>, Returned(meow(animal)))
  ELSE IF instanceof(animal, "Cat2") THEN Result(<<>>, Returned(woof(animal)))
  ELSE Result(<<>>, Thrown(<<"animal is not a dog or cat">>))

\* const makeSound = (animal: Animal2): string => { if (animal instanceof ...
\* (the instanceof matcher over Animal2; makeSound above is the method of
\* the Animal classes)
makeSound2(animal) ==
  IF instanceof(animal, "Dog2") THEN Result(<<>>, Returned(woof(animal)))
  ELSE IF instanceof(animal, "Cat2") THEN Result(<<>>, Returned(meow(animal)))
  ELSE Result(<<>>, Thrown(<<"animal is not a dog or cat">>))

\* A canClimbTrees that answers false for an animal it does not know.
canClimbTrees_lenient(animal) ==
  IF instanceof(animal, "Dog2") THEN Result(<<>>, Returned(Bool(FALSE)))
  ELSE IF instanceof(animal, "Cat2") THEN Result(<<>>, Returned(Bool(TRUE)))
  ELSE Result(<<>>, Returned(Bool(FALSE)))

\* const canClimbTrees = (animal: Animal2): boolean => { if (animal instanceof ...
canClimbTrees(animal) ==
  IF instanceof(animal, "Dog2") THEN Result(<<>>, Returned(Bool(FALSE)))
  ELSE IF instanceof(animal, "Cat2") THEN Result(<<>>, Returned(Bool(TRUE)))
  ELSE Result(<<>>, Thrown(<<"animal is not a dog or cat">>))

\* ------------------------------------------------------------ run-time actions

NoArg == [type |-> "none"]

CallRun ==
  \E op \in Op, a \in Nums, b \in Nums :
    LET r == run(op, a, b)
    IN  /\ fn' = "run"
        /\ arg' = [op |-> op, a |-> a, b |-> b]
        /\ events' = r.events
        /\ outcome' = r.outcome
        /\ invoked' = 0
        /\ UNCHANGED tcVars

CallHandlers ==
  \E n \in Notification \cup CastNotification :
    LET r == handlersDispatch(n)
    IN  /\ fn' = "handlers"
        /\ arg' = n
        /\ events' = r.events
        /\ outcome' = r.outcome
        /\ invoked' = 0
        /\ UNCHANGED tcVars

CallSwitchNotification ==
  \E n \in Notification \cup CastNotification :
    LET r == switchNotification(n)
    IN  /\ fn' = "switchNotification"
        /\ arg' = n
        /\ events' = r.events
        /\ outcome' = r.outcome
        /\ invoked' = 0
        /\ UNCHANGED tcVars

CallHandle ==
  \E n \in NotificationFmt \cup CastNotificationFmt :
    LET r == handle(n)
    IN  /\ fn' = "handle"
        /\ arg' = n
        /\ events' = r.events
        /\ outcome' = r.outcome
        /\ invoked' = 0
        /\ UNCHANGED tcVars

CallRun2 ==
  \E op \in Op, a \in Nums, b \in Nums :
    LET r == run2(op, a, b)
    IN  /\ fn' = "run2"
        /\ arg' = [op |-> op, a |-> a, b |-> b]
        /\ events' = r.events
        /\ outcome' = r.outcome
        /\ invoked' = 0
        /\ UNCHANGED tcVars

CallRun3 ==
  \E op \in Op, a \in Nums, b \in Nums :
    LET r == run3(op, a, b)
    IN  /\ fn' = "run3"
        /\ arg' = [op |-> op, a |-> a, b |-> b]
        /\ events' = r.events
        /\ outcome' = r.outcome
        /\ invoked' = 0
        /\ UNCHANGED tcVars

CallRun4 ==
  \E op \in Op, a \in Nums, b \in Nums :
    LET r == run4(op, a, b)
    IN  /\ fn' = "run4"
        /\ arg' = [op |-> op, a |-> a, b |-> b]
        /\ events' = r.events
        /\ outcome' = r.outcome
        /\ invoked' = 0
        /\ UNCHANGED tcVars

\* effect(): the caller invokes the callable it was handed, whenever and
\* however many times it wants.
InvokeEffect ==
  /\ outcome.kind = "return"
  /\ IsEffect(outcome.value)
  /\ invoked < MaxInvocations
  /\ events' = Append(events, outcome.value.effect)
  /\ invoked' = invoked + 1
  /\ UNCHANGED <<fn, arg, outcome>>
  /\ UNCHANGED tcVars

CallRunAction ==
  \E action \in LogActions \cup CastActions :
    LET r == runAction(action)
    IN  /\ fn' = "runAction"
        /\ arg' = action
        /\ events' = r.events
        /\ outcome' = r.outcome
        /\ invoked' = 0
        /\ UNCHANGED tcVars

CallHandleSound ==
  \E cls \in AnimalClasses, name \in AnimalNames :
    LET r == handleSound(New(cls, name))
    IN  /\ fn' = "handleSound"
        /\ arg' = [cls |-> cls, ctorArg |-> name]
        /\ events' = r.events
        /\ outcome' = r.outcome
        /\ invoked' = 0
        /\ UNCHANGED tcVars

CallRun5 ==
  \E op \in OpPartial, a \in Nums, b \in Nums :
    LET r == run5(op, a, b)
    IN  /\ fn' = "run5"
        /\ arg' = [op |-> op, a |-> a, b |-> b]
        /\ events' = r.events
        /\ outcome' = r.outcome
        /\ invoked' = 0
        /\ UNCHANGED tcVars

CallAccept ==
  \E cls \in Animal2Classes, id \in Animal2Ids, visitor \in Visitors :
    LET r == accept(NewAnimal2(cls, id), visitor)
    IN  /\ fn' = "accept"
        /\ arg' = [animal |-> NewAnimal2(cls, id), visitor |-> visitor]
        /\ events' = r.events
        /\ outcome' = r.outcome
        /\ invoked' = 0
        /\ UNCHANGED tcVars

CallMakeSound2 ==
  \E cls \in Animal2Classes \cup OtherAnimal2Classes, id \in Animal2Ids :
    LET r == makeSound2(NewAnimal2(cls, id))
    IN  /\ fn' = "makeSound"
        /\ arg' = NewAnimal2(cls, id)
        /\ events' = r.events
        /\ outcome' = r.outcome
        /\ invoked' = 0
        /\ UNCHANGED tcVars

CallCanClimbTrees ==
  \E cls \in Animal2Classes \cup OtherAnimal2Classes, id \in Animal2Ids :
    LET r == canClimbTrees(NewAnimal2(cls, id))
    IN  /\ fn' = "canClimbTrees"
        /\ arg' = NewAnimal2(cls, id)
        /\ events' = r.events
        /\ outcome' = r.outcome
        /\ invoked' = 0
        /\ UNCHANGED tcVars

Init ==
  /\ fn = "none"
  /\ arg = NoArg
  /\ events = <<>>
  /\ outcome = Returned(Undefined)
  /\ invoked = 0
  /\ prog = [variants |-> {}, cases |-> <<>>, body |-> "none",
             declared |-> "none", terminal |-> "none", use |-> "none"]
  /\ pcT = "idle"
  /\ idx = 1
  /\ residual = {}
  /\ errors = {}
  /\ input = 0
  /\ taken = "none"

Next ==
  \/ CallRun
  \/ CallHandlers
  \/ CallSwitchNotification
  \/ CallHandle
  \/ CallRun2
  \/ CallRun3
  \/ CallRun4
  \/ InvokeEffect
  \/ CallRunAction
  \/ CallHandleSound
  \/ CallRun5
  \/ CallAccept
  \/ CallMakeSound2
  \/ CallCanClimbTrees

Spec == Init /\ [][Next]_vars

\* ------------------------------------------------- compile-time case analysis

\* The closed variant sets: a union of 1..MaxVariants discriminants.
VariantSets == {V \in SUBSET (1..MaxVariants) : V # {}}

Range(s) == {s[i] : i \in 1..Len(s)}

\* The case clauses of a switch over V: distinct discriminants of V, in order.
\* (A label outside the union is refused outright, POST.md line 151.)
CaseLists(V) ==
  {s \in UNION {[1..k -> V] : k \in 0..Cardinality(V)} :
     \A i, j \in 1..Len(s) : i # j => s[i] # s[j]}

\* The shapes of case analysis the sources show.
\*   body      inline:   each clause performs its effect and breaks
\*             value:    each clause returns a value
\*             deferred: each clause returns a zero-argument callable
\*   declared  none | void | type (a non-void, non-optional result type)
\*   terminal  none | never (default passes the residual to never) |
\*             value (default returns a value of the result type)
\*   use       none | require (the result is used where undefined is refused)
Programs ==
  {p \in [variants : VariantSets,
          cases : UNION {CaseLists(V) : V \in VariantSets},
          body : {"inline", "value", "deferred"},
          declared : {"none", "void", "type"},
          terminal : {"none", "never", "value"},
          use : {"none", "require"}] :
     /\ p.cases \in CaseLists(p.variants)
     /\ p.body = "inline" =>
          /\ p.declared \in {"none", "void"}
          /\ p.terminal \in {"none", "never"}
          /\ p.use = "none"
     /\ p.body \in {"value", "deferred"} => p.declared \in {"none", "type"}}

\* A case clause that leaves the working type as it was.
Narrow_keep(res, c) == res

\* After a handled case the working type is what remained minus that variant.
Narrow(res, c) == res \ {c}

\* A terminal helper typed absurd(x: any): everything is assignable.
NeverAssignable_any(res) == TRUE

\* Only the uninhabited residual is assignable to a parameter typed never.
NeverAssignable(res) == res = {}

\* An end-of-function rule that trusts every switch to be exhaustive.
FallsOffEnd_trusting(p, res) == p.body = "inline" /\ Len(p.cases) > 0

\* Control can reach the end of the function without a return statement:
\* after a clause that breaks, or, with no default clause, for a variant that
\* no clause handles.
FallsOffEnd(p, res) ==
  \/ p.body = "inline" /\ Len(p.cases) > 0
  \/ p.terminal = "none" /\ res # {}

\* A rule that accepts the implicit "no value" only for an inferred result.
ImplicitReturnAllowed_strict(declared) == declared = "none"

\* Falling off the end yields "no value": fine for void, and for an inferred
\* result type (which then includes undefined), an error for a declared type.
ImplicitReturnAllowed(declared) == declared \in {"none", "void"}

\* An inferred result type that forgets the implicit undefined.
ResultHasUndefined_never(p, res) == FALSE

\* With no declared result type the inferred one includes undefined when a
\* value-returning analysis can fall off the end.
ResultHasUndefined(p, res) ==
  p.declared = "none" /\ p.body # "inline" /\ FallsOffEnd(p, res)

\* Passing a residual that still holds a variant to never is a type error.
TerminalErrors(p, res) ==
  IF p.terminal = "never" /\ ~NeverAssignable(res) THEN {"terminal"} ELSE {}

\* A checker that never reports a missing ending return statement.
EndErrors_none(p, res) == {}

\* A declared result type that excludes undefined refuses the implicit return.
EndErrors(p, res) ==
  IF FallsOffEnd(p, res) /\ ~ImplicitReturnAllowed(p.declared)
    THEN {"end"} ELSE {}

\* A checker that lets undefined through at every use.
UseErrors_none(p, res) == {}

\* A use that needs the value refuses a result type that includes undefined.
UseErrors(p, res) ==
  IF p.use = "require" /\ ResultHasUndefined(p, res) THEN {"use"} ELSE {}

\* The whole check of a program, as the walk below performs it.
RECURSIVE ResidualAfter(_, _, _)
ResidualAfter(res, cases, i) ==
  IF i > Len(cases) THEN res
  ELSE ResidualAfter(Narrow(res, cases[i]), cases, i + 1)

Diagnostics(p) ==
  LET res == ResidualAfter(p.variants, p.cases, 1)
  IN  TerminalErrors(p, res) \cup EndErrors(p, res) \cup UseErrors(p, res)

\* ------------------------------------------------------ compile-time actions

BeginCheck ==
  /\ pcT = "idle"
  /\ \E p \in Programs : prog' = p /\ residual' = p.variants
  /\ idx' = 1
  /\ errors' = {}
  /\ pcT' = "cases"
  /\ UNCHANGED <<input, taken>>
  /\ UNCHANGED rtVars

CheckCase ==
  /\ pcT = "cases"
  /\ idx <= Len(prog.cases)
  /\ residual' = Narrow(residual, prog.cases[idx])
  /\ idx' = idx + 1
  /\ UNCHANGED <<prog, pcT, errors>>
  /\ UNCHANGED <<input, taken>>
  /\ UNCHANGED rtVars

CheckTerminal ==
  /\ pcT = "cases"
  /\ idx > Len(prog.cases)
  /\ errors' = errors \cup TerminalErrors(prog, residual)
  /\ pcT' = "end"
  /\ UNCHANGED <<prog, idx, residual>>
  /\ UNCHANGED <<input, taken>>
  /\ UNCHANGED rtVars

CheckEnd ==
  /\ pcT = "end"
  /\ errors' = errors \cup EndErrors(prog, residual)
  /\ pcT' = "use"
  /\ UNCHANGED <<prog, idx, residual>>
  /\ UNCHANGED <<input, taken>>
  /\ UNCHANGED rtVars

CheckUse ==
  /\ pcT = "use"
  /\ errors' = errors \cup UseErrors(prog, residual)
  /\ pcT' = "done"
  /\ UNCHANGED <<prog, idx, residual>>
  /\ UNCHANGED <<input, taken>>
  /\ UNCHANGED rtVars

\* The branch a switch takes for a value of variant v: the clause of v, else
\* the default clause, else none (control leaves the switch).
ExecSwitch_firstClause(p, v) ==
  IF Len(p.cases) > 0 THEN "case" ELSE "end"

ExecSwitch(p, v) ==
  IF v \in Range(p.cases) THEN "case"
  ELSE IF p.terminal # "none" THEN "default"
  ELSE "end"

\* Running the checked case analysis on a value of one of the variants.
Execute ==
  /\ pcT = "done"
  /\ prog.body \in {"inline", "value", "deferred"}
  /\ \E v \in prog.variants :
       /\ input' = v
       /\ taken' = ExecSwitch(prog, v)
  /\ pcT' = "ran"
  /\ UNCHANGED <<prog, idx, residual, errors>>
  /\ UNCHANGED rtVars

\* A class declared `implements AnimalVisitor<R>`: variants are the visit
\* operations the interface lists (one per variant class), cases the visit
\* operations the class provides.
VisitorPrograms ==
  {p \in [variants : VariantSets,
          cases : UNION {CaseLists(V) : V \in VariantSets},
          body : {"visitor"},
          declared : {"type"},
          terminal : {"none"},
          use : {"none"}] :
     p.cases \in CaseLists(p.variants)}

\* An implements check that accepts a class providing any one operation.
ImplementsErrors_anyOne(p) ==
  IF Len(p.cases) = 0 THEN {"implements"} ELSE {}

\* A class that lacks a member of the interface it implements is rejected.
ImplementsErrors(p) ==
  IF p.variants \subseteq Range(p.cases) THEN {} ELSE {"implements"}

CheckImplements ==
  /\ pcT = "idle"
  /\ \E p \in VisitorPrograms :
       /\ prog' = p
       /\ residual' = p.variants \ Range(p.cases)
       /\ idx' = Len(p.cases) + 1
       /\ errors' = ImplementsErrors(p)
  /\ pcT' = "done"
  /\ UNCHANGED <<input, taken>>
  /\ UNCHANGED rtVars

\* The handlers map and one dispatch site: variants are the members of the
\* Notification union, cases the keys the map has a handler for, known the
\* variant the dispatched notification is narrowed to (by its initializer),
\* and the handler is looked up by notification.type or by a literal key.
HandlerPrograms ==
  {p \in [variants : VariantSets,
          cases : UNION {CaseLists(V) : V \in VariantSets},
          body : {"handlers"},
          declared : {"none"},
          terminal : {"none"},
          use : {"none"},
          lookup : {"byType", "byKey"},
          key : 1..MaxVariants,
          known : 1..MaxVariants] :
     /\ p.cases \in CaseLists(p.variants)
     /\ p.known \in p.variants
     /\ p.key \in p.variants
     /\ p.lookup = "byType" => p.key = p.known}

\* The map has no handler under the key the lookup resolves to.
KeyErrors(p) ==
  IF p.key \in Range(p.cases) THEN {} ELSE {"key"}

\* A handler that takes any Notification.
ArgumentErrors_anyNotification(p) == {}

\* handlers[k] takes Notification & {type: k}: a notification known to be
\* another variant is not assignable to it.
ArgumentErrors(p) ==
  IF p.key \in Range(p.cases) /\ p.known # p.key THEN {"argument"} ELSE {}

CheckHandlers ==
  /\ pcT = "idle"
  /\ \E p \in HandlerPrograms :
       /\ prog' = p
       /\ residual' = p.variants \ Range(p.cases)
       /\ idx' = Len(p.cases) + 1
       /\ errors' = KeyErrors(p) \cup ArgumentErrors(p)
  /\ pcT' = "done"
  /\ UNCHANGED <<input, taken>>
  /\ UNCHANGED rtVars

\* A switch nested in one clause of another: variants are the values of the
\* outer tag (type), cases the outer clauses, nestedIn the outer value whose
\* clause holds the inner switch, innerVariants the values of the inner tag
\* (format) among the variants of that outer value, innerCases the inner
\* clauses. Each switch ends in default: absurd(notification). Without the
\* nestedIn clause there is no inner switch.
NestedProgram(V, cs, k, IV, ics) ==
  [variants |-> V, cases |-> cs, body |-> "nested", declared |-> "none",
   terminal |-> "never", use |-> "none",
   nestedIn |-> k, innerVariants |-> IV, innerCases |-> ics]

\* A checker that takes the outer proof to cover the inner switch as well.
InnerTerminalErrors_covered(p) == {}

\* Inside the nestedIn clause the working type is the variants of that outer
\* value; the inner clauses narrow it by the inner tag, and the inner
\* default passes what remains to never.
InnerTerminalErrors(p) ==
  IF /\ p.nestedIn \in Range(p.cases)
     /\ ~NeverAssignable(ResidualAfter(p.innerVariants, p.innerCases, 1))
    THEN {"innerTerminal"}
    ELSE {}

CheckNested ==
  /\ pcT = "idle"
  /\ \E V \in VariantSets, IV \in VariantSets :
       \E cs \in CaseLists(V), k \in V, ics \in CaseLists(IV) :
         LET p == NestedProgram(V, cs, k, IV, ics)
             res == ResidualAfter(V, cs, 1)
         IN  /\ k \notin Range(cs) => ics = <<>>
             /\ prog' = p
             /\ residual' = res
             /\ idx' = Len(cs) + 1
             /\ errors' = TerminalErrors(p, res) \cup InnerTerminalErrors(p)
  /\ pcT' = "done"
  /\ UNCHANGED <<input, taken>>
  /\ UNCHANGED rtVars

NextCheck ==
  \/ BeginCheck
  \/ CheckCase
  \/ CheckTerminal
  \/ CheckEnd
  \/ CheckUse
  \/ Execute
  \/ CheckImplements
  \/ CheckHandlers
  \/ CheckNested

SpecCheck == Init /\ [][NextCheck]_vars

\* Every variant has a case; exactly one variant has none.
AllHandled == Range(prog.cases) = prog.variants
OneUnhandled == Len(prog.cases) = Cardinality(prog.variants) - 1

\* ----------------------------------------------------------------- claims

\* C1: with a never-typed terminal branch, a case analysis over a closed set
\* of n variants is accepted when all n discriminants have a case; with any
\* single case removed it is rejected at the terminal branch, which then
\* receives exactly the one variant left without a case.
C1_NeverTerminalBranch ==
  (/\ pcT = "done"
   /\ prog.terminal = "never"
   /\ prog.body \in {"inline", "value", "deferred"}) =>
    /\ AllHandled => errors = {}
    /\ OneUnhandled =>
         /\ "terminal" \in errors
         /\ Cardinality(residual) = 1
         /\ residual = prog.variants \ Range(prog.cases)

C1_Witness ==
  /\ pcT = "done"
  /\ prog.terminal = "never"
  /\ prog.variants = {1, 2, 3}
  /\ prog.cases = <<1, 3>>
  /\ residual = {2}
  /\ errors = {"terminal"}

\* C2: with a declared non-void result type, no terminal branch and every
\* handled case returning a value, the program is accepted when all n
\* variants are handled and rejected when exactly n-1 are handled (the end
\* of the function is reachable and would yield no value).
C2_DeclaredReturnType ==
  (/\ pcT = "done"
   /\ prog.declared = "type"
   /\ prog.terminal = "none"
   /\ prog.body \in {"value", "deferred"}) =>
    /\ AllHandled => errors = {}
    /\ OneUnhandled => "end" \in errors

C2_Witness ==
  /\ pcT = "done"
  /\ prog.declared = "type"
  /\ prog.terminal = "none"
  /\ prog.body = "value"
  /\ prog.variants = {1, 2, 3}
  /\ prog.cases = <<1, 2>>
  /\ errors = {"end"}

\* C3: an effect-only case analysis declared void with no terminal branch is
\* accepted for every subset of handled variants, n-1 of n in particular.
C3_VoidGap ==
  (pcT = "done" /\ prog.declared = "void" /\ prog.terminal = "none") =>
    errors = {}

C3_Witness ==
  /\ pcT = "done"
  /\ prog.declared = "void"
  /\ prog.terminal = "none"
  /\ prog.body = "inline"
  /\ prog.variants = {1, 2, 3}
  /\ prog.cases = <<1, 2>>
  /\ residual = {3}
  /\ errors = {}

\* C4 as stated: every case analysis whose branches return a deferred effect,
\* with no terminal branch, is rejected when n-1 of n variants are handled
\* and accepted when all n are handled.
C4_Original ==
  (pcT = "done" /\ prog.body = "deferred" /\ prog.terminal = "none") =>
    /\ AllHandled => errors = {}
    /\ OneUnhandled => errors # {}

\* C4, amended: a case analysis whose branches return a deferred effect, with
\* no terminal branch, and whose result type is declared or whose result is
\* used where a callable is required, is rejected when n-1 of n variants are
\* handled; with all n handled it is accepted.
C4_DeferredEffect ==
  (pcT = "done" /\ prog.body = "deferred" /\ prog.terminal = "none") =>
    /\ AllHandled => errors = {}
    /\ (OneUnhandled /\ (prog.declared = "type" \/ prog.use = "require")) =>
         errors # {}

C4_Witness ==
  /\ pcT = "done"
  /\ prog.body = "deferred"
  /\ prog.terminal = "none"
  /\ prog.declared = "none"
  /\ prog.use = "require"
  /\ prog.variants = {1, 2, 3}
  /\ prog.cases = <<1, 2>>
  /\ errors = {"use"}

\* C5: the residual of a sequential case analysis starts as the full variant
\* set, loses exactly the variant just handled at each case, and once the
\* cases are exhausted it is empty if and only if every variant was handled.
C5_ResidualInvariant ==
  pcT # "idle" =>
    /\ residual = prog.variants \ {prog.cases[i] : i \in 1..(idx - 1)}
    /\ Cardinality(residual) = Cardinality(prog.variants) - (idx - 1)
    /\ idx > Len(prog.cases) => (residual = {} <=> AllHandled)

C5_Witness ==
  /\ pcT = "cases"
  /\ prog.variants = {1, 2, 3}
  /\ prog.cases = <<2, 3, 1>>
  /\ idx = 3
  /\ residual = {1}

\* C6: dispatching a Notification through the handlers map or through
\* switchNotification performs exactly one send operation, the one of the
\* value's discriminant, with that variant's fields, and returns normally.
C6_DispatchRoundTrip ==
  (fn \in {"handlers", "switchNotification"} /\ arg.type \in NotificationTypes) =>
    /\ outcome.kind = "return"
    /\ arg.type = "email" =>
         events = <<sendEmail(arg.recipient, arg.subject, arg.body)>>
    /\ arg.type = "sms" =>
         events = <<sendSMS(arg.phoneNumber, arg.message)>>

C6_Witness ==
  /\ fn = "handlers"
  /\ arg.type = "email"
  /\ events = <<sendEmail("igor@loskutoff.com", "hello", "world")>>
  /\ outcome.kind = "return"

\* The quotient a/b where it is a whole number.
ExactDivide(a, b) == CHOOSE q \in 0..a : q * b = a

\* C7 as stated: run returns a+b for 'add', a*b for 'multiply' and a/b for
\* 'divide' (checked where b divides a), so that run('divide')(6,3) = 2.
C7_Original ==
  (fn = "run" /\ arg.b # 0 /\ arg.a % arg.b = 0) =>
    /\ arg.op = "add" => outcome = Returned(Num(arg.a + arg.b))
    /\ arg.op = "multiply" => outcome = Returned(Num(arg.a * arg.b))
    /\ arg.op = "divide" => outcome = Returned(Num(ExactDivide(arg.a, arg.b)))

\* C7, amended: run returns a+b for 'add' and a*b for 'multiply', so that
\* run('add')(2,3) = 5 and run('multiply')(2,3) = 6; 'divide' has no case in
\* run, which returns undefined for it, run('divide')(6,3) included.
C7_RunArithmetic ==
  fn = "run" =>
    /\ events = <<>>
    /\ arg.op = "add" => outcome = Returned(Num(arg.a + arg.b))
    /\ arg.op = "multiply" => outcome = Returned(Num(arg.a * arg.b))
    /\ arg.op = "divide" => outcome = Returned(Undefined)
    /\ (arg.op = "add" /\ arg.a = 2 /\ arg.b = 3) => outcome = Returned(Num(5))
    /\ (arg.op = "multiply" /\ arg.a = 2 /\ arg.b = 3) => outcome = Returned(Num(6))

C7_Witness ==
  /\ fn = "run"
  /\ arg = [op |-> "divide", a |-> 6, b |-> 3]
  /\ outcome = Returned(Undefined)

\* C8: a value whose discriminant is outside the declared variant set, forced
\* onto switchNotification or onto a dispatcher ending in absurd, makes the
\* terminal branch throw: the call does not return and performs no send.
C8_DefensiveFallback ==
  (\/ fn = "switchNotification" /\ arg \in CastNotification
   \/ fn = "handle" /\ arg \in CastNotificationFmt) =>
    /\ outcome.kind = "throw"
    /\ events = <<>>

C8_Witness ==
  /\ fn = "switchNotification"
  /\ arg.type = "push"
  /\ outcome = Thrown(<<"panic! Unknown notification type: ", "push">>)
  /\ events = <<>>

\* C9: each of the three two-tag inputs (email/html, email/plain, sms) given
\* to the nested handle reaches exactly one leaf, one sendEmail or one
\* sendSMS call, and neither terminal absurd branch is reached.
C9_TwoTagDispatch ==
  (fn = "handle" /\ arg \in NotificationFmt) =>
    /\ outcome = Returned(Undefined)
    /\ Len(events) = 1
    /\ arg.type = "email" =>
         events[1] = sendEmail(arg.recipient, arg.subject, arg.body)
    /\ arg.type = "sms" =>
         events[1] = sendSMS(arg.phoneNumber, arg.message)

C9_Witness ==
  /\ fn = "handle"
  /\ arg.type = "email"
  /\ arg.format = "html"
  /\ events = <<sendEmail(arg.recipient, arg.subject, arg.body)>>
  /\ outcome.kind = "return"

\* The same case analysis under the other technique: a declared non-void
\* result type, every clause returning a value, and no terminal branch.
DeclaredTwin(p) ==
  [p EXCEPT !.terminal = "none",
            !.declared = "type",
            !.body = IF p.body = "inline" THEN "value" ELSE p.body]

\* C10: for every variant set and every list of handled cases, the analysis
\* with a never-typed terminal branch is rejected if and only if the same
\* analysis with a declared non-void result type and no terminal branch is
\* rejected, and both are rejected exactly when some variant has no case.
C10_SameVerdict ==
  (/\ pcT = "done"
   /\ prog.terminal = "never"
   /\ prog.body \in {"inline", "value", "deferred"}) =>
    /\ errors # {} <=> Diagnostics(DeclaredTwin(prog)) # {}
    /\ errors # {} <=> ~AllHandled

C10_Witness ==
  /\ pcT = "done"
  /\ prog.terminal = "never"
  /\ prog.variants = {1, 2, 3}
  /\ prog.cases = <<3>>
  /\ errors # {}
  /\ Diagnostics(DeclaredTwin(prog)) = {"end"}

\* C11: run4(op)(a, b) itself logs nothing; every console.log of a run4 call
\* comes from an invocation of the returned callable, one per invocation, so
\* k invocations leave exactly k log events, all with the same value.
C11_DeferredNotExecuted ==
  fn = "run4" =>
    /\ Len(events) = invoked
    /\ \A i \in 1..Len(events) :
         /\ events[i] = outcome.value.effect
         /\ events[i].op = "console.log"
         /\ events[i] = events[1]

C11_Witness ==
  /\ fn = "run4"
  /\ arg = [op |-> "add", a |-> 1, b |-> 1]
  /\ invoked = 2
  /\ events = <<consoleLog(Num(2)), consoleLog(Num(2))>>

\* C12: handleSound(new Dog(name)) returns "<name> barks." and
\* handleSound(new Cat(name)) returns "<name> meows.", with <name> the
\* constructor argument ('Storm', 'Viper').
C12_ConstructorName ==
  fn = "handleSound" =>
    /\ arg.cls = "Dog" => outcome = Returned(Str(<<arg.ctorArg, " barks.">>))
    /\ arg.cls = "Cat" => outcome = Returned(Str(<<arg.ctorArg, " meows.">>))

\* C13: a value-returning case analysis with no default, no declared result
\* type and a variant left without a case is accepted at its definition (no
\* diagnostic at the terminal branch or at the end), and rejected exactly at
\* a use that requires the non-undefined result.
C13_UseSiteDetection ==
  (/\ pcT = "done"
   /\ prog.body \in {"value", "deferred"}
   /\ prog.declared = "none"
   /\ prog.terminal = "none"
   /\ ~AllHandled) =>
    /\ errors \cap {"terminal", "end"} = {}
    /\ prog.use = "require" => errors = {"use"}
    /\ prog.use = "none" => errors = {}

C13_Witness ==
  /\ pcT = "done"
  /\ prog.body = "value"
  /\ prog.declared = "none"
  /\ prog.terminal = "none"
  /\ prog.use = "require"
  /\ prog.variants = {1, 2, 3}
  /\ prog.cases = <<1, 2>>
  /\ errors = {"use"}

\* C14: an entry of the handlers map accepts only a notification narrowed
\* to the variant of its own key: a notification known to be one variant
\* passed to the handler under another key is rejected, while the lookup by
\* notification.type for the same value is accepted.
C14_HandlerParameter ==
  (pcT = "done" /\ prog.body = "handlers") =>
    /\ (/\ prog.lookup = "byKey"
        /\ prog.key \in Range(prog.cases)
        /\ prog.key # prog.known) => "argument" \in errors
    /\ (prog.lookup = "byType" /\ prog.known \in Range(prog.cases)) =>
         errors = {}

C14_Witness ==
  /\ pcT = "done"
  /\ prog.body = "handlers"
  /\ prog.variants = {1, 2}
  /\ prog.cases = <<1, 2>>
  /\ prog.lookup = "byKey"
  /\ prog.known = 1
  /\ prog.key = 2
  /\ errors = {"argument"}

\* C15: with the handlers map and the dispatch site
\* handlers[notification.type](notification), a variant of the union that
\* has no handler under its discriminant makes the program rejected.
C15_KeyMappingExhaustive ==
  (/\ pcT = "done"
   /\ prog.body = "handlers"
   /\ prog.lookup = "byType"
   /\ ~AllHandled) => errors # {}

\* C16: a class implementing the visitor interface is accepted if and only
\* if it provides the visit operation of every variant; with one variant
\* (and its visit operation) added to the interface, a visitor that lacks
\* that operation is rejected.
C16_VisitorExhaustive ==
  (pcT = "done" /\ prog.body = "visitor") =>
    /\ errors = {} <=> AllHandled
    /\ OneUnhandled => errors = {"implements"}

C16_Witness ==
  /\ pcT = "done"
  /\ prog.body = "visitor"
  /\ prog.variants = {1, 2, 3}
  /\ prog.cases = <<1, 2>>
  /\ errors = {"implements"}

\* C17: a case analysis whose default branch returns a value is accepted
\* whatever variants lack a case, and at run time a value of such a variant
\* is handled by the default branch.
C17_ValueDefault ==
  (pcT \in {"done", "ran"} /\ prog.terminal = "value") =>
    /\ errors = {}
    /\ (pcT = "ran" /\ input \notin Range(prog.cases)) => taken = "default"

C17_Witness ==
  /\ pcT = "ran"
  /\ prog.terminal = "value"
  /\ prog.variants = {1, 2, 3}
  /\ prog.cases = <<1, 2>>
  /\ input = 3
  /\ taken = "default"
  /\ errors = {}

\* C18: when runAction receives, through a cast, an action whose tag is not
\* 'log', its default branch raises an error instead of returning normally.
C18_RunActionThrows ==
  (fn = "runAction" /\ arg.action # "log") => outcome.kind = "throw"

\* C19: for op in {'add', 'multiply'}, invoking the callable returned by
\* run4(op)(a, b) once logs exactly what run2(op)(a, b) logs inline.
C19_DeferredPreservesInline ==
  (fn = "run4" /\ arg.op \in {"add", "multiply"} /\ invoked = 1) =>
    events = run2(arg.op, arg.a, arg.b).events

\* C20: for op = 'divide', run, run3 and run4 fall off the end of the switch
\* and return undefined without raising, and run2 returns normally without
\* any console.log.
C20_UnhandledFallsOff ==
  (fn \in {"run", "run2", "run3", "run4"} /\ arg.op = "divide") =>
    /\ outcome = Returned(Undefined)
    /\ events = <<>>

C20_Witness ==
  /\ fn = "run3"
  /\ arg = [op |-> "divide", a |-> 6, b |-> 3]
  /\ outcome = Returned(Undefined)
  /\ events = <<>>

\* C21: run5 is total: for every string op and all numbers a, b it returns,
\* without raising, a LogAction whose action is 'log', never undefined; the
\* value describes the sum for 'add', the product for 'multiply', the
\* quotient for 'divide' (a number q with q * b = a whenever b is not 0),
\* and is exactly 'default' for every other string.
C21_PartialMatchTotal ==
  fn = "run5" =>
    /\ outcome.kind = "return"
    /\ outcome.value # Undefined
    /\ outcome.value.t = "object"
    /\ outcome.value.action = "log"
    /\ events = <<>>
    /\ arg.op = "add" =>
         outcome.value.value = <<arg.a, " + ", arg.b, " = ", arg.a + arg.b>>
    /\ arg.op = "multiply" =>
         outcome.value.value = <<arg.a, " * ", arg.b, " = ", arg.a * arg.b>>
    /\ arg.op = "divide" =>
         /\ Len(outcome.value.value) = 5
         /\ SubSeq(outcome.value.value, 1, 4) = <<arg.a, " / ", arg.b, " = ">>
         /\ outcome.value.value[5].t = "number"
         /\ arg.b # 0 =>
              outcome.value.value[5].num * arg.b = arg.a * outcome.value.value[5].den
    /\ arg.op \notin {"add", "multiply", "divide"} =>
         outcome.value.value = <<"default">>

C21_Witness ==
  /\ fn = "run5"
  /\ arg = [op |-> "subtract", a |-> 6, b |-> 3]
  /\ outcome = Returned(LogAction(<<"default">>))

\* C22: double dispatch selects exactly one visit operation: for every
\* visitor, accept on a Dog2 calls visitDog exactly once, with the receiving
\* Dog2, never calls visitCat, and returns visitDog's result; accept on a
\* Cat2 calls visitCat exactly once, with the receiving Cat2, never calls
\* visitDog, and returns visitCat's result.
C22_DoubleDispatch ==
  fn = "accept" =>
    /\ arg.animal.cls = "Dog2" =>
         /\ events = <<[op |-> "visitDog", visitor |-> arg.visitor,
                        args |-> <<arg.animal>>]>>
         /\ outcome = Returned(visitDog(arg.visitor, arg.animal))
    /\ arg.animal.cls = "Cat2" =>
         /\ events = <<[op |-> "visitCat", visitor |-> arg.visitor,
                        args |-> <<arg.animal>>]>>
         /\ outcome = Returned(visitCat(arg.visitor, arg.animal))

C22_Witness ==
  /\ fn = "accept"
  /\ arg.animal = NewAnimal2("Cat2", "second")
  /\ arg.visitor = "CanClimbTreesVisitor"
  /\ Len(events) = 1
  /\ events[1].op = "visitCat"
  /\ outcome = Returned(Bool(TRUE))

\* C23: for every animal that is a Dog2 or a Cat2, the instanceof matcher
\* makeSound returns what accept returns with a MakeSoundVisitor ('woof'
\* for a Dog2, 'meow' for a Cat2), and canClimbTrees returns what accept
\* returns with a CanClimbTreesVisitor (false for a Dog2, true for a Cat2).
C23_MatcherEqualsVisitor ==
  (fn \in {"makeSound", "canClimbTrees"} /\ arg.cls \in {"Dog2", "Cat2"}) =>
    /\ fn = "makeSound" =>
         /\ outcome = accept(arg, "MakeSoundVisitor").outcome
         /\ outcome = Returned(Str(<<IF arg.cls = "Dog2" THEN "woof" ELSE "meow">>))
    /\ fn = "canClimbTrees" =>
         /\ outcome = accept(arg, "CanClimbTreesVisitor").outcome
         /\ outcome = Returned(Bool(arg.cls = "Cat2"))

C23_Witness ==
  /\ fn = "makeSound"
  /\ arg = NewAnimal2("Dog2", "first")
  /\ outcome = Returned(Str(<<"woof">>))

\* C24: for an Animal2 implementation that is neither a Dog2 nor a Cat2,
\* makeSound and canClimbTrees raise the error 'animal is not a dog or cat'
\* and return no value; for a Dog2 or a Cat2 they never raise.
C24_MatcherThrowsOnUnknown ==
  fn \in {"makeSound", "canClimbTrees"} =>
    /\ arg.cls \notin {"Dog2", "Cat2"} =>
         outcome = Thrown(<<"animal is not a dog or cat">>)
    /\ arg.cls \in {"Dog2", "Cat2"} => outcome.kind = "return"

C24_Witness ==
  /\ fn = "canClimbTrees"
  /\ arg = NewAnimal2("Other2", "first")
  /\ outcome = Thrown(<<"animal is not a dog or cat">>)

\* C25: nested matching over two tags needs one proof per nesting level:
\* with every outer case present, leaving out one inner case is rejected at
\* the inner terminal branch and only there; leaving out one outer case
\* (the inner switch complete, or gone with the clause that held it) is
\* rejected at the outer terminal branch and only there; and with all cases
\* present both terminal branches receive the empty residual and the
\* program is accepted.
C25_NestedProofPerLevel ==
  (pcT = "done" /\ prog.body = "nested") =>
    LET innerPresent == prog.nestedIn \in Range(prog.cases)
        innerAll == Range(prog.innerCases) = prog.innerVariants
        innerOneOut ==
          Len(prog.innerCases) = Cardinality(prog.innerVariants) - 1
    IN  /\ (AllHandled /\ innerAll) =>
             /\ errors = {}
             /\ residual = {}
             /\ prog.innerVariants \ Range(prog.innerCases) = {}
        /\ (AllHandled /\ innerOneOut) => errors = {"innerTerminal"}
        /\ (OneUnhandled /\ (innerAll \/ ~innerPresent)) =>
             /\ errors = {"terminal"}
             /\ Cardinality(residual) = 1

\* handle of the source with its inner 'plain' case removed: types
\* {email, sms} as {1, 2}, formats {html, plain} as {1, 2}.
C25_Witness ==
  /\ pcT = "done"
  /\ prog.body = "nested"
  /\ prog.variants = {1, 2}
  /\ prog.cases = <<1, 2>>
  /\ prog.nestedIn = 1
  /\ prog.innerVariants = {1, 2}
  /\ prog.innerCases = <<1>>
  /\ errors = {"innerTerminal"}

====
